---- MODULE Spec2Model ----
(***************************************************************************)
(* chadcommit: the `chadcommit.suggest` command handler (the invocation    *)
(* coordinator), `suggest`, and `turboCompletion` (the streaming           *)
(* completion session) of the cancellable variant of the extension.        *)
(*                                                                         *)
(* One step of the model is one turn of the extension host's event loop:   *)
(* a callback (command, dialog answer, awaited git call returning, timer,  *)
(* network event) together with every promise continuation it makes        *)
(* runnable, since those run as microtasks before the next callback.       *)
(***************************************************************************)
EXTENDS Integers, Sequences, FiniteSets, TLC

\* ------------------------------------------------------------- bounds
MaxInv == 2
MaxDialogs == 1
MaxStreamInv == 1
MaxTrialInv == 10

\* ---------------------------------------------------- program constants
MaxCost == 4500
TemplateLen == 287
TemplateLenEmoji == 301
StatusOK == 200
\* the trial-gated variant (src/src/extension.ts)
TrialDefault == 10
TrialTemplateLen == 1113
TrialTemplateLenEmoji == 1123

Invocations == 1..MaxInv
NULL == 0

\* ------------------------------------------------------- response bytes
\* A response body is a sequence of tokens, each standing for a run of
\* bytes; a chunk boundary may fall between any two tokens.
\*   "O"  the bytes `data: {`            "}"  the byte `}`
\*   "N"  the byte `\n`                  "D"  the bytes `data: [DONE]`
\*   "a","b"  `"choices":[{"delta":{"content":"<a|b>"}}]`
\*   "e"  `"choices":[{"delta":{"content":""}}]`
\*   "r"  `"choices":[{"delta":{"role":"assistant"}}]`
\*   "x"  bytes that make the enclosing object invalid JSON
\*   "Q"  the error body `{"error":{"code":"rate_limit"}}`
\*   "J"  a body that is not JSON
Fragments == {"a", "b"}

StreamScripts ==
  { <<"O","r","}","N","O","a","}","N","O","b","}","N","D","N">>,
    <<"O","a","}","N","D","N","O","b","}","N">>,
    <<"O","a","}","N","O","x","}","N","O","b","}","N">>,
    <<"O","e","}","N","O","a","}","N">> }

ErrorScripts ==
  { <<"Q">>, <<"J">>, <<"O","a","}","N">> }

ErrorStatuses == {401, 429}

CoordBodies == { <<"O","a","}","N">> }
CoordErrorBodies == { <<"Q">> }

StatusMessage(s) ==
  IF s = 401 THEN "Unauthorized" ELSE IF s = 429 THEN "Too Many Requests" ELSE "OK"

\* ------------------------------------------------------------- values
\* What a promise settles with, and what is shown to the user.
Val(k, t, s, c) == [kind |-> k, text |-> t, status |-> s, cause |-> c]
NoValue == Val("none", <<>>, 0, "")
Undefined == Val("undefined", <<>>, 0, "")
TextValue(t) == Val("text", t, 0, "")
\* the string `OpenAI: ${res.statusCode} ${res.statusMessage}`
StatusError(s) == Val("OpenAI", <<>>, s, StatusMessage(s))
\* the Error object of a req 'error' event
TransportError(c) == Val("Error", <<>>, 0, c)

VARIABLES
  cancellationTokenSource, \* the closure variable of activate: NULL or the source's id
  nextInv,                 \* the number of invocations that passed the Busy check
  dialogs,                 \* open 'Thinking...' / Cancel notifications, counted by the
                           \* source the variable held when each was shown
  pc,                      \* per invocation: where its command handler is
  cancelled,               \* per source: cancel() was called (the signal fired)
  disposed,                \* per source: dispose() was called
  listen,                  \* per session: "none" | "registered" | "timer" | "called"
  net,                     \* per session: the state of the HTTP exchange
  status,                  \* per session: res.statusCode (0 before the response)
  script,                  \* per session: the whole response body the server sends
  wire,                    \* per session: the part of the body not yet delivered
  fullText,                \* per session: the local `fullText`
  sinkLog,                 \* per session: the arguments of its onText calls, in order
  promise,                 \* per session: "none" | "pending" | "resolved" | "rejected"
  value,                   \* per session: what the promise settled with
  shown,                   \* per invocation: what suggest's catch showed (NoValue: nothing)
  openAiKey,               \* per invocation: suggest's `openAiKey`: "unread" | "empty" | "set"
  cost                     \* per invocation: suggest's `cost` (0 until computed)

\* The trial-gated variant: the command handler, suggest and openAiCompletion
\* of src/src/extension.ts, lines 5-226.
VARIABLES
  isProcessing,            \* the closure variable of activate
  globalState,             \* the stored "chadcommit.numTrialCalls": <<>> (undefined) or <<n>>
  trialNext,               \* the number of handler runs that passed the isProcessing check
  trialPc,                 \* per run: where its handler is
  numTrialCalls,           \* per run: suggest's local, <<>> (undefined) or <<n>>
  trialReq,                \* per run: the state of its HTTP exchange
  trialWarnings            \* how many times the purchase warning was shown

trialVars == <<isProcessing, globalState, trialNext, trialPc, numTrialCalls, trialReq,
               trialWarnings>>

TrialInvocations == 1..MaxTrialInv

vars == <<cancellationTokenSource, nextInv, dialogs, pc, cancelled, disposed,
          listen, net, status, script, wire, fullText, sinkLog, promise, value, shown,
          openAiKey, cost>>

\* ------------------------------------------------- the 'data' handler
\* The complete lines of a chunk, each without its "\n"; `.` does not match
\* "\n" and the pattern ends in "\n", so what follows the last "\n" of a
\* chunk can never be part of a match.
RECURSIVE SplitLines(_, _, _)
SplitLines(chunk, cur, acc) ==
  IF chunk = <<>> THEN acc
  ELSE IF Head(chunk) = "N" THEN SplitLines(Tail(chunk), <<>>, Append(acc, cur))
  ELSE SplitLines(Tail(chunk), Append(cur, Head(chunk)), acc)

\* /data: ({.*})\n/ on one line: the leftmost `data: {`, then greedily up to
\* a `}` that ends the line. <<p>> with p the tokens between the braces of
\* match[1], or <<>> when the line has no match.
MatchLine(line) ==
  LET n == Len(line)
      starts == {i \in 1..n : line[i] = "O"}
  IN IF n >= 2 /\ line[n] = "}" /\ (starts \ {n}) # {}
     THEN LET first == CHOOSE i \in starts : \A j \in starts : i <= j
          IN <<SubSeq(line, first + 1, n - 1)>>
     ELSE <<>>

RECURSIVE MatchLines(_)
MatchLines(ls) ==
  IF ls = <<>> THEN <<>> ELSE MatchLine(Head(ls)) \o MatchLines(Tail(ls))

\* decoder.decode(chunk).matchAll(/data: ({.*})\n/g)
MatchAll(chunk) == MatchLines(SplitLines(chunk, <<>>, <<>>))

\* JSON.parse(match[1]).choices[0].delta does not throw
Parses(payload) == Len(payload) = 1 /\ payload[1] \in Fragments \cup {"e", "r"}

\* the destructured `content`; "" stands for every falsy value
Content(payload) == IF payload[1] \in Fragments THEN payload[1] ELSE ""

\* line 170 as `onText(content)`: the sink gets the fragment, not the text
RECURSIVE ForMatchesSinkDelta(_, _, _)
ForMatchesSinkDelta(ms, ft, log) ==
  IF ms = <<>> THEN [fullText |-> ft, sinkLog |-> log, threw |-> FALSE]
  ELSE IF ~Parses(Head(ms)) THEN [fullText |-> ft, sinkLog |-> log, threw |-> TRUE]
  ELSE IF Content(Head(ms)) = "" THEN ForMatchesSinkDelta(Tail(ms), ft, log)
  ELSE ForMatchesSinkDelta(Tail(ms), Append(ft, Content(Head(ms))),
                           Append(log, <<Content(Head(ms))>>))

\* lines 164-166 (`if (!content) continue`) left out
RECURSIVE ForMatchesNoSkip(_, _, _)
ForMatchesNoSkip(ms, ft, log) ==
  IF ms = <<>> THEN [fullText |-> ft, sinkLog |-> log, threw |-> FALSE]
  ELSE IF ~Parses(Head(ms)) THEN [fullText |-> ft, sinkLog |-> log, threw |-> TRUE]
  ELSE LET t == IF Content(Head(ms)) = "" THEN ft ELSE Append(ft, Content(Head(ms)))
       IN ForMatchesNoSkip(Tail(ms), t, Append(log, t))

\* the for loop over the matches; an exception leaves the loop and the handler
RECURSIVE ForMatches(_, _, _)
ForMatches(ms, ft, log) ==
  IF ms = <<>> THEN [fullText |-> ft, sinkLog |-> log, threw |-> FALSE]
  ELSE IF ~Parses(Head(ms)) THEN [fullText |-> ft, sinkLog |-> log, threw |-> TRUE]
  ELSE IF Content(Head(ms)) = "" THEN ForMatches(Tail(ms), ft, log)
  ELSE LET t == Append(ft, Content(Head(ms)))
       IN ForMatches(Tail(ms), t, Append(log, t))

OnData(ft, log, chunk) == ForMatches(MatchAll(chunk), ft, log)

\* ---------------------------------------------------------------- Init
Init ==
  /\ cancellationTokenSource = NULL
  /\ nextInv = 0
  /\ dialogs = [i \in Invocations |-> 0]
  /\ pc = [i \in Invocations |-> "idle"]
  /\ cancelled = [i \in Invocations |-> FALSE]
  /\ disposed = [i \in Invocations |-> FALSE]
  /\ listen = [i \in Invocations |-> "none"]
  /\ net = [i \in Invocations |-> "none"]
  /\ status = [i \in Invocations |-> 0]
  /\ script = [i \in Invocations |-> <<>>]
  /\ wire = [i \in Invocations |-> <<>>]
  /\ fullText = [i \in Invocations |-> <<>>]
  /\ sinkLog = [i \in Invocations |-> <<>>]
  /\ promise = [i \in Invocations |-> "none"]
  /\ value = [i \in Invocations |-> NoValue]
  /\ shown = [i \in Invocations |-> NoValue]
  /\ openAiKey = [i \in Invocations |-> "unread"]
  /\ cost = [i \in Invocations |-> 0]
  /\ isProcessing = FALSE
  /\ globalState = <<>>
  /\ trialNext = 0
  /\ trialPc = [i \in TrialInvocations |-> "idle"]
  /\ numTrialCalls = [i \in TrialInvocations |-> <<>>]
  /\ trialReq = [i \in TrialInvocations |-> "none"]
  /\ trialWarnings = 0

\* --------------------------------------------------- handler fragments
\* line 25 (`cancellationTokenSource = null`) left out
HandlerFinishNoReset(i, cts, disp) ==
  /\ pc' = [pc EXCEPT ![i] = IF cts = NULL THEN "threw" ELSE "done"]
  /\ disposed' = IF cts = NULL THEN disp ELSE [disp EXCEPT ![cts] = TRUE]
  /\ cancellationTokenSource' = cts

\* Lines 24-25 of the command handler, run by invocation i when `await
\* suggest(...)` returns. cts and disp are the closure variable and the
\* disposed sources as the callback of this step left them. The variable is
\* read again here, not remembered: null makes `.dispose()` throw a TypeError.
HandlerFinish(i, cts, disp) ==
  /\ pc' = [pc EXCEPT ![i] = IF cts = NULL THEN "threw" ELSE "done"]
  /\ disposed' = IF cts = NULL THEN disp ELSE [disp EXCEPT ![cts] = TRUE]
  /\ cancellationTokenSource' = NULL

\* resolve(v) / reject(v) of a pending promise, and suggest's continuation:
\* a rejection lands in the catch, which shows error.toString()
Settle(i, how, v) ==
  /\ promise' = [promise EXCEPT ![i] = how]
  /\ value' = [value EXCEPT ![i] = v]
  /\ shown' = IF how = "rejected" THEN [shown EXCEPT ![i] = v] ELSE shown

\* req.destroy() left out: the response keeps flowing
ReqDestroyKeepsData(n) == n

\* req.destroy(): the rest of the response is dropped; a request with no
\* response yet gets an 'error' event ('socket hang up') afterwards
ReqDestroy(n) ==
  IF n = "sent" THEN "destroyedSent" ELSE IF n = "body" THEN "destroyed" ELSE n

\* ------------------------------------------------------------- actions
\* the number of open notifications shown for the sources 1..n
RECURSIVE OpenDialogs(_)
OpenDialogs(n) == IF n = 0 THEN 0 ELSE dialogs[n] + OpenDialogs(n - 1)

Envs == {"ok", "noKey", "noGitExtension", "noRepo"}

\* The command handler up to its first suspension. Busy: offer Cancel and
\* return. Idle: create the source, call suggest, which returns at once when
\* the key, the Git extension or the repository is missing and otherwise
\* suspends at `await currentRepo.diffIndexWith('HEAD')`.
Trigger(env, maxInv) ==
  \/ /\ cancellationTokenSource # NULL
     /\ OpenDialogs(MaxInv) < MaxDialogs
     /\ dialogs' = [dialogs EXCEPT ![cancellationTokenSource] = @ + 1]
     /\ UNCHANGED <<cancellationTokenSource, nextInv, pc, cancelled, disposed, listen,
                    net, status, script, wire, fullText, sinkLog, promise, value, shown,
                    openAiKey, cost>>
     /\ UNCHANGED trialVars
  \/ /\ cancellationTokenSource = NULL
     /\ nextInv < maxInv
     /\ nextInv' = nextInv + 1
     /\ openAiKey' = [openAiKey EXCEPT ![nextInv + 1] =
                        IF env = "noKey" THEN "empty" ELSE "set"]
     /\ IF env = "ok"
        THEN /\ cancellationTokenSource' = nextInv + 1
             /\ pc' = [pc EXCEPT ![nextInv + 1] = "awaitDiff"]
             /\ UNCHANGED disposed
        ELSE HandlerFinish(nextInv + 1, nextInv + 1, disposed)
     /\ UNCHANGED <<dialogs, cancelled, listen, net, status, script, wire, fullText,
                    sinkLog, promise, value, shown, cost>>
     /\ UNCHANGED trialVars

\* the listener without its resolve(): only req.destroy()
CancelListenerNoResolve(i, cts, disp) ==
  /\ listen' = [listen EXCEPT ![i] = "called"]
  /\ net' = [net EXCEPT ![i] = ReqDestroy(net[i])]
  /\ cancellationTokenSource' = cts
  /\ disposed' = disp
  /\ UNCHANGED <<pc, promise, value, shown>>

\* The listener turboCompletion subscribes to the token, for session i:
\* req.destroy(); resolve(). Resolving a pending promise lets suggest return
\* and the handler run its last two lines, with the closure variable (cts)
\* and the disposed sources (disp) as the caller of the listener leaves them.
CancelListener(i, cts, disp) ==
  /\ listen' = [listen EXCEPT ![i] = "called"]
  /\ net' = [net EXCEPT ![i] = ReqDestroy(net[i])]
  /\ IF promise[i] = "pending"
     THEN /\ Settle(i, "resolved", Undefined)
          /\ HandlerFinish(i, cts, disp)
     ELSE /\ cancellationTokenSource' = cts
          /\ disposed' = disp
          /\ UNCHANGED <<pc, promise, value, shown>>

\* 'Cancel' without line 14 (`cancellationTokenSource = null`)
DialogAnswerNoReset(accept, o) ==
  /\ dialogs[o] > 0
  /\ dialogs' = [dialogs EXCEPT ![o] = @ - 1]
  /\ IF accept /\ cancellationTokenSource # NULL
     THEN LET s == cancellationTokenSource IN
          /\ cancelled' = [cancelled EXCEPT ![s] = TRUE]
          /\ IF listen[s] = "registered"
             THEN CancelListener(s, s, [disposed EXCEPT ![s] = TRUE])
             ELSE /\ disposed' = [disposed EXCEPT ![s] = TRUE]
                  /\ UNCHANGED <<cancellationTokenSource, listen, net, pc, promise,
                                 value, shown>>
     ELSE UNCHANGED <<cancellationTokenSource, cancelled, disposed, listen, net, pc,
                      promise, value, shown>>
  /\ UNCHANGED <<nextInv, status, script, wire, fullText, sinkLog, openAiKey, cost>>
  /\ UNCHANGED trialVars

\* The answer to a 'Thinking...' notification that was shown while source o
\* was held. 'Cancel' acts on whatever the closure variable holds now:
\* cancel() runs the registered listener, then dispose() and the reset to
\* null; the cancelled handler's continuation runs after that and finds null.
DialogAnswer(accept, o) ==
  /\ dialogs[o] > 0
  /\ dialogs' = [dialogs EXCEPT ![o] = @ - 1]
  /\ IF accept /\ cancellationTokenSource # NULL
     THEN LET s == cancellationTokenSource IN
          /\ cancelled' = [cancelled EXCEPT ![s] = TRUE]
          /\ IF listen[s] = "registered"
             THEN CancelListener(s, NULL, [disposed EXCEPT ![s] = TRUE])
             ELSE /\ cancellationTokenSource' = NULL
                  /\ disposed' = [disposed EXCEPT ![s] = TRUE]
                  /\ UNCHANGED <<listen, net, pc, promise, value, shown>>
     ELSE UNCHANGED <<cancellationTokenSource, cancelled, disposed, listen, net, pc,
                      promise, value, shown>>
  /\ UNCHANGED <<nextInv, status, script, wire, fullText, sinkLog, openAiKey, cost>>
  /\ UNCHANGED trialVars

PromptLens == {4213, 4214}
DiffResults ==
  {[kind |-> k, promptLen |-> 0] : k \in {"throws", "noStaged"}}
    \cup {[kind |-> "changes", promptLen |-> n] : n \in PromptLens}

\* messages.reduce((p, c) => p + c.content.length, 0)
Cost(promptLen, useEmoji) ==
  (IF useEmoji THEN TemplateLenEmoji ELSE TemplateLen) + promptLen

\* lines 101-104 (`if (cost > 4500) { ...; return }`) left out
DiffReturnNoBudget(i, d, useEmoji) ==
  /\ pc[i] = "awaitDiff"
  /\ cost' = [cost EXCEPT ![i] =
                 IF d.kind = "changes" THEN Cost(d.promptLen, useEmoji) ELSE @]
  /\ IF d.kind = "changes"
     THEN /\ pc' = [pc EXCEPT ![i] = "awaitCompletion"]
          /\ net' = [net EXCEPT ![i] = "sent"]
          /\ promise' = [promise EXCEPT ![i] = "pending"]
          /\ listen' = [listen EXCEPT ![i] = IF cancelled[i] THEN "timer" ELSE "registered"]
          /\ UNCHANGED <<cancellationTokenSource, disposed, shown>>
     ELSE /\ HandlerFinish(i, cancellationTokenSource, disposed)
          /\ shown' = IF d.kind = "throws"
                      THEN [shown EXCEPT ![i] = TransportError("git")]
                      ELSE shown
          /\ UNCHANGED <<net, promise, listen>>
  /\ UNCHANGED <<nextInv, dialogs, cancelled, status, script, wire, fullText, sinkLog,
                 value, openAiKey>>
  /\ UNCHANGED trialVars

\* suggest resumes from the awaited git calls (diffIndexWith and one
\* diffIndexWithHEAD per file: suspensions with nothing in between). It
\* returns early, or calls turboCompletion, which issues the request and
\* subscribes to the token; an already cancelled token calls the listener
\* from a timer of 0 ms, which runs before any network event of the request
\* just written. useEmoji, read before the await, only enters the cost.
DiffReturn(i, d, useEmoji) ==
  /\ pc[i] = "awaitDiff"
  /\ cost' = [cost EXCEPT ![i] =
                 IF d.kind = "changes" THEN Cost(d.promptLen, useEmoji) ELSE @]
  /\ IF d.kind = "changes" /\ Cost(d.promptLen, useEmoji) <= MaxCost
     THEN /\ pc' = [pc EXCEPT ![i] = "awaitCompletion"]
          /\ net' = [net EXCEPT ![i] = "sent"]
          /\ promise' = [promise EXCEPT ![i] = "pending"]
          /\ listen' = [listen EXCEPT ![i] = IF cancelled[i] THEN "timer" ELSE "registered"]
          /\ UNCHANGED <<cancellationTokenSource, disposed, shown>>
     ELSE /\ HandlerFinish(i, cancellationTokenSource, disposed)
          /\ shown' = IF d.kind = "throws"
                      THEN [shown EXCEPT ![i] = TransportError("git")]
                      ELSE shown
          /\ UNCHANGED <<net, promise, listen>>
  /\ UNCHANGED <<nextInv, dialogs, cancelled, status, script, wire, fullText, sinkLog,
                 value, openAiKey>>
  /\ UNCHANGED trialVars

\* the listener of a token that was already cancelled when subscribed to
CancelTimer(i) ==
  /\ listen[i] = "timer"
  /\ CancelListener(i, cancellationTokenSource, disposed)
  /\ UNCHANGED <<nextInv, dialogs, cancelled, status, script, wire, fullText, sinkLog,
                 openAiKey, cost>>
  /\ UNCHANGED trialVars

\* the request callback: a status other than 200 rejects and goes on to
\* register the same handlers
ResponseStart(i, st, sc) ==
  /\ net[i] = "sent"
  /\ listen[i] # "timer"
  /\ net' = [net EXCEPT ![i] = "body"]
  /\ status' = [status EXCEPT ![i] = st]
  /\ script' = [script EXCEPT ![i] = sc]
  /\ wire' = [wire EXCEPT ![i] = sc]
  /\ IF st # StatusOK /\ promise[i] = "pending"
     THEN /\ Settle(i, "rejected", StatusError(st))
          /\ HandlerFinish(i, cancellationTokenSource, disposed)
     ELSE UNCHANGED <<promise, value, shown, pc, disposed, cancellationTokenSource>>
  /\ UNCHANGED <<nextInv, dialogs, cancelled, listen, fullText, sinkLog, openAiKey, cost>>
  /\ UNCHANGED trialVars

\* res 'data' with the next k tokens of the body as the chunk
ResData(i, k) ==
  /\ net[i] = "body"
  /\ k \in 1..Len(wire[i])
  /\ LET r == OnData(fullText[i], sinkLog[i], SubSeq(wire[i], 1, k)) IN
     /\ fullText' = [fullText EXCEPT ![i] = r.fullText]
     /\ sinkLog' = [sinkLog EXCEPT ![i] = r.sinkLog]
  /\ wire' = [wire EXCEPT ![i] = SubSeq(wire[i], k + 1, Len(wire[i]))]
  /\ UNCHANGED <<cancellationTokenSource, nextInv, dialogs, pc, cancelled, disposed,
                 listen, net, status, script, promise, value, shown, openAiKey, cost>>
  /\ UNCHANGED trialVars

\* res 'end': resolve(fullText)
ResEnd(i) ==
  /\ net[i] = "body"
  /\ wire[i] = <<>>
  /\ net' = [net EXCEPT ![i] = "ended"]
  /\ IF promise[i] = "pending"
     THEN /\ Settle(i, "resolved", TextValue(fullText[i]))
          /\ HandlerFinish(i, cancellationTokenSource, disposed)
     ELSE UNCHANGED <<promise, value, shown, pc, disposed, cancellationTokenSource>>
  /\ UNCHANGED <<nextInv, dialogs, cancelled, listen, status, script, wire, fullText,
                 sinkLog, openAiKey, cost>>
  /\ UNCHANGED trialVars

\* an 'error' handler that sends the request again instead of rejecting
ReqErrorRetry(i) ==
  /\ net[i] \in {"sent", "body", "destroyedSent"}
  /\ listen[i] # "timer"
  /\ net' = [net EXCEPT ![i] = "sent"]
  /\ status' = [status EXCEPT ![i] = 0]
  /\ UNCHANGED <<cancellationTokenSource, nextInv, dialogs, pc, cancelled, disposed,
                 listen, script, wire, fullText, sinkLog, promise, value, shown,
                 openAiKey, cost>>
  /\ UNCHANGED trialVars

\* req 'error': reject(error). A socket error before or during the response,
\* or the 'socket hang up' that follows req.destroy() before a response.
ReqError(i) ==
  /\ net[i] \in {"sent", "body", "destroyedSent"}
  /\ listen[i] # "timer"
  /\ net' = [net EXCEPT ![i] = "errored"]
  /\ IF promise[i] = "pending"
     THEN /\ Settle(i, "rejected",
                    TransportError(IF net[i] = "destroyedSent" THEN "socket hang up"
                                   ELSE "ECONNRESET"))
          /\ HandlerFinish(i, cancellationTokenSource, disposed)
     ELSE UNCHANGED <<promise, value, shown, pc, disposed, cancellationTokenSource>>
  /\ UNCHANGED <<nextInv, dialogs, cancelled, listen, status, script, wire, fullText,
                 sinkLog, openAiKey, cost>>
  /\ UNCHANGED trialVars

\* The connection closes before the body is complete: res gets 'aborted',
\* 'error' and 'close', req gets no 'error'. No handler is registered for any
\* of them, and 'end' never comes.
ResAborted(i) ==
  /\ net[i] = "body"
  /\ net' = [net EXCEPT ![i] = "aborted"]
  /\ UNCHANGED <<cancellationTokenSource, nextInv, dialogs, pc, cancelled, disposed,
                 listen, status, script, wire, fullText, sinkLog, promise, value, shown,
                 openAiKey, cost>>
  /\ UNCHANGED trialVars

\* One turn of the event loop, for at most maxInv invocations and a server
\* that answers 200 with a body of okBodies and an error status with one of
\* errBodies.
Step(maxInv, okBodies, errBodies) ==
  \/ \E env \in Envs : Trigger(env, maxInv)
  \/ \E accept \in BOOLEAN, o \in Invocations : DialogAnswer(accept, o)
  \/ \E i \in Invocations, d \in DiffResults, useEmoji \in BOOLEAN : DiffReturn(i, d, useEmoji)
  \/ \E i \in Invocations : CancelTimer(i)
  \/ \E i \in Invocations, sc \in okBodies : ResponseStart(i, StatusOK, sc)
  \/ \E i \in Invocations, st \in ErrorStatuses, sc \in errBodies : ResponseStart(i, st, sc)
  \/ \E i \in Invocations : \E k \in 1..Len(wire[i]) : ResData(i, k)
  \/ \E i \in Invocations : ResEnd(i)
  \/ \E i \in Invocations : ReqError(i)
  \/ \E i \in Invocations : ResAborted(i)

\* The coordinator with overlapping invocations and short bodies.
Next == Step(MaxInv, CoordBodies, CoordErrorBodies)
Spec == Init /\ [][Next]_vars

\* One session at a time against every body of StreamScripts and ErrorScripts,
\* under every chunking.
NextStream == Step(MaxStreamInv, StreamScripts, ErrorScripts)
SpecStream == Init /\ [][NextStream]_vars

\* ------------------------------------------------ the trial-gated variant
\* context.globalState.get("chadcommit.numTrialCalls") || 10
GetNumTrialCalls ==
  IF globalState = <<>> \/ globalState[1] = 0 THEN TrialDefault ELSE globalState[1]

\* the gate never closes
TrialNeverOver(n) == FALSE

\* numTrialCalls === 1
TrialOver(n) == n = 1

TrialPromptLens == {3387, 3388}
TrialDiffResults ==
  {[kind |-> k, promptLen |-> 0] : k \in {"throws", "noStaged"}}
    \cup {[kind |-> "changes", promptLen |-> n] : n \in TrialPromptLens}

\* messages.reduce((p, c) => p + c.content.length, 0)
TrialCost(promptLen, useEmoji) ==
  (IF useEmoji THEN TrialTemplateLenEmoji ELSE TrialTemplateLen) + promptLen

\* suggest returns (or its catch has shown the error) and the handler runs
\* `isProcessing = false`; suggest's locals are gone
TrialFinish(i) ==
  /\ trialPc' = [trialPc EXCEPT ![i] = "done"]
  /\ numTrialCalls' = [numTrialCalls EXCEPT ![i] = <<>>]
  /\ isProcessing' = FALSE

\* The command handler up to its first suspension. While processing: show
\* 'Thinking...' and return. Otherwise set isProcessing and run suggest: the
\* key check, then for a locked configuration the read of the counter and
\* the gate, then the Git extension and repository checks, then the
\* suspension at `await currentRepo.diffIndexWith('HEAD')`.
TrialTrigger(env, isUnlocked) ==
  \/ /\ isProcessing
     /\ UNCHANGED trialVars
     /\ UNCHANGED vars
  \/ /\ ~isProcessing
     /\ trialNext < MaxTrialInv
     /\ trialNext' = trialNext + 1
     /\ LET i == trialNext + 1
            gated == ~isUnlocked /\ TrialOver(GetNumTrialCalls)
        IN /\ trialWarnings' = IF env # "noKey" /\ gated
                                THEN trialWarnings + 1 ELSE trialWarnings
           /\ IF env = "ok" /\ ~gated
              THEN /\ isProcessing' = TRUE
                   /\ trialPc' = [trialPc EXCEPT ![i] = "awaitDiff"]
                   /\ numTrialCalls' = [numTrialCalls EXCEPT ![i] =
                                          IF isUnlocked THEN <<>>
                                          ELSE <<GetNumTrialCalls>>]
              ELSE TrialFinish(i)
     /\ UNCHANGED <<globalState, trialReq>>
     /\ UNCHANGED vars

\* suggest resumes from the awaited git calls: it returns early, its catch
\* shows what a git call threw, or it calls openAiCompletion, which issues
\* the request
TrialDiffReturn(i, d, useEmoji) ==
  /\ trialPc[i] = "awaitDiff"
  /\ IF d.kind = "changes" /\ TrialCost(d.promptLen, useEmoji) <= MaxCost
     THEN /\ trialPc' = [trialPc EXCEPT ![i] = "awaitCompletion"]
          /\ trialReq' = [trialReq EXCEPT ![i] = "sent"]
          /\ UNCHANGED <<isProcessing, numTrialCalls>>
     ELSE /\ TrialFinish(i)
          /\ UNCHANGED trialReq
  /\ UNCHANGED <<globalState, trialNext, trialWarnings>>
  /\ UNCHANGED vars

\* the request callback: a status other than 200 rejects, suggest's catch
\* shows the error and the handler ends; the response goes on
TrialResponseStart(i, st) ==
  /\ trialReq[i] = "sent"
  /\ IF st = StatusOK
     THEN /\ trialReq' = [trialReq EXCEPT ![i] = "body"]
          /\ UNCHANGED <<isProcessing, trialPc, numTrialCalls>>
     ELSE /\ trialReq' = [trialReq EXCEPT ![i] = "failedBody"]
          /\ TrialFinish(i)
  /\ UNCHANGED <<globalState, trialNext, trialWarnings>>
  /\ UNCHANGED vars

\* res 'end': resolve(fullText), a no-op on a rejected promise. When the
\* promise was pending suggest goes on after its await:
\* `if (numTrialCalls) update(..., --numTrialCalls)`, and the handler ends.
TrialResEnd(i) ==
  /\ trialReq[i] \in {"body", "failedBody"}
  /\ trialReq' = [trialReq EXCEPT ![i] = "none"]
  /\ IF trialPc[i] = "awaitCompletion"
     THEN /\ globalState' = IF numTrialCalls[i] # <<>> /\ numTrialCalls[i][1] # 0
                            THEN <<numTrialCalls[i][1] - 1>>
                            ELSE globalState
          /\ TrialFinish(i)
     ELSE UNCHANGED <<globalState, isProcessing, trialPc, numTrialCalls>>
  /\ UNCHANGED <<trialNext, trialWarnings>>
  /\ UNCHANGED vars

\* req 'error': reject(error); a pending promise lands in suggest's catch
TrialReqError(i) ==
  /\ trialReq[i] \in {"sent", "body", "failedBody"}
  /\ trialReq' = [trialReq EXCEPT ![i] = "none"]
  /\ IF trialPc[i] = "awaitCompletion"
     THEN TrialFinish(i)
     ELSE UNCHANGED <<isProcessing, trialPc, numTrialCalls>>
  /\ UNCHANGED <<globalState, trialNext, trialWarnings>>
  /\ UNCHANGED vars

\* the connection closes before the body is complete: events on res only,
\* for which no handler is registered; a pending promise stays pending
TrialResAborted(i) ==
  /\ trialReq[i] \in {"body", "failedBody"}
  /\ trialReq' = [trialReq EXCEPT ![i] = IF trialReq[i] = "body" THEN "aborted" ELSE "none"]
  /\ UNCHANGED <<isProcessing, globalState, trialNext, trialPc, numTrialCalls,
                 trialWarnings>>
  /\ UNCHANGED vars

\* One turn of the event loop of the trial-gated variant. A res 'data' event
\* only touches the session's text, which is not part of this state.
NextTrial ==
  \/ \E env \in Envs, isUnlocked \in BOOLEAN : TrialTrigger(env, isUnlocked)
  \/ \E i \in TrialInvocations, d \in TrialDiffResults, useEmoji \in BOOLEAN :
       TrialDiffReturn(i, d, useEmoji)
  \/ \E i \in TrialInvocations, st \in {StatusOK} \cup ErrorStatuses :
       TrialResponseStart(i, st)
  \/ \E i \in TrialInvocations : TrialResEnd(i)
  \/ \E i \in TrialInvocations : TrialReqError(i)
  \/ \E i \in TrialInvocations : TrialResAborted(i)
SpecTrial == Init /\ [][NextTrial]_trialVars

\* ========================================================== properties
Busy == cancellationTokenSource # NULL
InFlight(i) == pc[i] \in {"awaitDiff", "awaitCompletion"}
Finished(i) == pc[i] \in {"done", "threw"}
\* a Completion Session: an issued HTTP request whose promise has not settled
SessionExists(i) == net[i] # "none" /\ promise[i] = "pending"
\* the part of the body that has reached the 'data' handler
Delivered(i) == SubSeq(script[i], 1, Len(script[i]) - Len(wire[i]))

\* C1: single-flight -- at any instant at most one Completion Session (an
\* issued request that has not settled) exists.
C1_SingleFlight ==
  Cardinality({i \in Invocations : SessionExists(i)}) <= 1

\* C2: once the cancellation signal of a session has fired, that session
\* never invokes the sink again, whatever part of the response is still to
\* arrive.
C2_NoSinkAfterCancel ==
  [][\A i \in Invocations : cancelled[i] => sinkLog'[i] = sinkLog[i]]_vars

\* C2 witness: cancelled in mid-stream, after a sink call, with response
\* bytes still undelivered.
C2_Witness ==
  \E i \in Invocations :
    cancelled[i] /\ net[i] = "destroyed" /\ sinkLog[i] # <<>> /\ wire[i] # <<>>

\* C3: whenever an invocation settles (success, cancellation, error, early
\* return) the coordinator is Idle right after, and a Busy coordinator always
\* has its own invocation still running: it is never stuck in Busy.
C3_SettleReturnsToIdle ==
  [][/\ \A i \in Invocations :
          (~Finished(i) /\ Finished(i)') => cancellationTokenSource' = NULL
     /\ Busy' => pc'[cancellationTokenSource'] \in {"awaitDiff", "awaitCompletion"}]_vars

\* C3 witness: a session failed, its error was shown, and the coordinator is
\* Idle.
C3_Witness ==
  \E i \in Invocations :
    /\ promise[i] = "rejected" /\ shown[i] = value[i] /\ Finished(i)
    /\ ~Busy

\* C4: accepting Cancel while Busy fires the signal the coordinator holds,
\* that one only and for the first time, and makes the coordinator Idle in
\* the same step, whether or not the session's connection is gone yet.
C4_CancelFiresOnceAndIdles ==
  [][((\E o \in Invocations : DialogAnswer(TRUE, o)) /\ Busy) =>
       /\ ~cancelled[cancellationTokenSource]
       /\ cancelled'[cancellationTokenSource]
       /\ \A j \in Invocations \ {cancellationTokenSource} : cancelled'[j] = cancelled[j]
       /\ ~Busy']_vars

\* C4 witness: Cancel was accepted, the coordinator is Idle, and the aborted
\* request has not finished closing (its 'error' event is still to come).
C4_Witness ==
  \E i \in Invocations :
    cancelled[i] /\ listen[i] = "called" /\ net[i] = "destroyedSent" /\ ~Busy

\* C5: a session whose cancellation listener ran has resolved with no value
\* and stays so, also after the aborted request's 'error' event; no error is
\* shown; if no response byte had been delivered, the sink was never called.
C5_CancelResolvesAbsent ==
  \A i \in Invocations :
    listen[i] = "called" =>
      /\ promise[i] = "resolved" /\ value[i] = Undefined
      /\ shown[i] = NoValue
      /\ (Delivered(i) = <<>> => sinkLog[i] = <<>>)

\* C5 witness: cancelled before any response, then the request's 'error'
\* event arrived.
C5_Witness ==
  \E i \in Invocations :
    listen[i] = "called" /\ net[i] = "errored" /\ sinkLog[i] = <<>>

\* ------------------------------------------------ stream vocabulary
\* the complete lines that have reached the 'data' handler, whatever the
\* chunking
DeliveredLines(i) == SplitLines(Delivered(i), <<>>, <<>>)
\* one event line of the wire protocol: `data: <json>` with a delta, or the
\* terminal marker
ValidLine(line) ==
  \/ line = <<"D">>
  \/ Len(line) = 3 /\ line[1] = "O" /\ line[2] \in Fragments \cup {"e", "r"}
       /\ line[3] = "}"
\* a valid event stream: only event lines, the last one terminated
ValidStream(sc) ==
  /\ sc # <<>> /\ sc[Len(sc)] = "N"
  /\ \A k \in DOMAIN SplitLines(sc, <<>>, <<>>) : ValidLine(SplitLines(sc, <<>>, <<>>)[k])
\* a line that starts with `data: {` whose payload is not valid JSON
MalformedLine(line) == line # <<>> /\ line[1] = "O" /\ ~ValidLine(line)
MarkerReceived(i) == \E k \in DOMAIN DeliveredLines(i) : DeliveredLines(i)[k] = <<"D">>
MalformedReceived(i) ==
  \E k \in DOMAIN DeliveredLines(i) : MalformedLine(DeliveredLines(i)[k])
LastSink(log) == IF log = <<>> THEN <<>> ELSE log[Len(log)]
\* the provider error code of an error body, "unknown" when it does not parse
ErrorCode(body) == IF body = <<"Q">> THEN "rate_limit" ELSE "unknown"
\* a session streaming a 200 response that nobody cancelled
Streaming(i) == status[i] = StatusOK /\ net[i] = "body" /\ ~cancelled[i]

\* C6: chunk-boundary independence -- a valid event stream read to its end
\* resolves with the text, and ends with the sink argument, that the same
\* stream gives when it arrives as one chunk.
C6_ChunkIndependence ==
  \A i \in Invocations :
    (/\ status[i] = StatusOK /\ net[i] = "ended" /\ ValidStream(script[i])
     /\ promise[i] = "resolved" /\ value[i].kind = "text")
    => /\ value[i].text = OnData(<<>>, <<>>, script[i]).fullText
       /\ LastSink(sinkLog[i]) = LastSink(OnData(<<>>, <<>>, script[i]).sinkLog)

\* C7: after a network-level failure, before the response or while its body
\* streams, the session has failed with a transport error; it is not left
\* unsettled. (A session cancelled or already rejected for its status is not
\* in question.)
C7_TransportFailureRejects ==
  \A i \in Invocations :
    (/\ net[i] \in {"errored", "aborted"}
     /\ listen[i] # "called" /\ status[i] \in {0, StatusOK})
    => promise[i] = "rejected" /\ value[i].kind = "Error"

\* C8: once the line `data: [DONE]` has been received the session is
\* complete, resolved with the text accumulated so far, and bytes arriving
\* after the marker cause no sink invocation.
C8_DoneCompletes ==
  [][\A i \in Invocations :
       /\ (Streaming(i)' /\ MarkerReceived(i)')
            => promise'[i] = "resolved" /\ value'[i] = TextValue(fullText'[i])
       /\ (Streaming(i) /\ MarkerReceived(i)) => sinkLog'[i] = sinkLog[i]]_vars

\* C9: once a `data:` line with unparsable JSON has been received the session
\* has failed with MalformedStreamChunk, and nothing that arrives later is
\* processed or handed to the sink.
C9_MalformedFails ==
  [][\A i \in Invocations :
       /\ (Streaming(i)' /\ MalformedReceived(i)')
            => promise'[i] = "rejected" /\ value'[i].kind = "MalformedStreamChunk"
       /\ (Streaming(i) /\ MalformedReceived(i))
            => sinkLog'[i] = sinkLog[i] /\ fullText'[i] = fullText[i]]_vars

\* C10: a response whose status is not 200, once its body is read, has made
\* the session fail with the status code and the provider code parsed from
\* the body ("unknown" if it does not parse), without any sink invocation.
C10_ProviderRejected ==
  \A i \in Invocations :
    (status[i] \in ErrorStatuses /\ net[i] = "ended")
    => /\ promise[i] = "rejected"
       /\ value[i].status = status[i]
       /\ value[i].cause = ErrorCode(script[i])
       /\ sinkLog[i] = <<>>

\* a sequence s extended at its end: s is a prefix of t
IsPrefix(s, t) == Len(s) <= Len(t) /\ SubSeq(t, 1, Len(s)) = s

\* C11: the running text of a session only grows, and every sink call gets
\* the cumulative text: the argument of the previous call (empty before the
\* first) followed by exactly one non-empty fragment; the running text is
\* the argument of the last call.
C11_TextOnlyGrows ==
  /\ [](\A i \in Invocations :
          /\ fullText[i] = LastSink(sinkLog[i])
          /\ \A k \in DOMAIN sinkLog[i] :
               \E f \in Fragments :
                 sinkLog[i][k] = Append(IF k = 1 THEN <<>> ELSE sinkLog[i][k - 1], f))
  /\ [][\A i \in Invocations :
          IsPrefix(fullText[i], fullText'[i]) /\ IsPrefix(sinkLog[i], sinkLog'[i])]_vars

\* C11 witness: two fragments arrived and the sink was called for each.
C11_Witness ==
  \E i \in Invocations :
    Len(sinkLog[i]) = 2 /\ sinkLog[i][1] = <<"a">> /\ sinkLog[i][2] = <<"a", "b">>

\* the non-empty text fragments of the delta lines among ls, in order
RECURSIVE FragmentsOf(_)
FragmentsOf(ls) ==
  IF ls = <<>> THEN <<>>
  ELSE (IF ValidLine(Head(ls)) /\ Len(Head(ls)) = 3 /\ Head(ls)[2] \in Fragments
        THEN <<Head(ls)[2]>> ELSE <<>>) \o FragmentsOf(Tail(ls))

\* a valid event stream in which nothing follows the terminal marker
EndsAtMarker(sc) ==
  /\ ValidStream(sc)
  /\ \A k \in DOMAIN SplitLines(sc, <<>>, <<>>) :
       SplitLines(sc, <<>>, <<>>)[k] = <<"D">> => k = Len(SplitLines(sc, <<>>, <<>>))

\* C12: on the normal end of a valid stream the session resolves with the
\* final running text, which is the concatenation, in arrival order, of all
\* non-empty delta fragments received, and is the argument of the last sink
\* call.
C12_ResolvesWithAllFragments ==
  \A i \in Invocations :
    (/\ status[i] = StatusOK /\ net[i] = "ended" /\ EndsAtMarker(script[i])
     /\ listen[i] # "called")
    => /\ promise[i] = "resolved"
       /\ value[i] = TextValue(fullText[i])
       /\ value[i].text = FragmentsOf(DeliveredLines(i))
       /\ value[i].text = LastSink(sinkLog[i])

\* C13: every delta with a non-empty fragment causes exactly one sink call
\* and none causes more, also with several events in one chunk, and the
\* calls come in the arrival order of their deltas: at any moment of a valid
\* stream the k-th sink argument is the first k fragments received.
C13_OneSinkCallPerFragment ==
  \A i \in Invocations :
    (status[i] = StatusOK /\ EndsAtMarker(script[i]) /\ ~cancelled[i])
    => /\ Len(sinkLog[i]) = Len(FragmentsOf(DeliveredLines(i)))
       /\ \A k \in DOMAIN sinkLog[i] :
            sinkLog[i][k] = SubSeq(FragmentsOf(DeliveredLines(i)), 1, k)

Settled(i) == promise[i] \in {"resolved", "rejected"}

\* C14: a session that has settled (resolved, failed or cancelled) never
\* invokes the sink again; and a session that fails has its error shown and
\* leaves the coordinator Idle in the step in which it fails.
C14_NoSinkAfterSettled ==
  [][\A i \in Invocations :
       /\ Settled(i) => sinkLog'[i] = sinkLog[i]
       /\ (promise[i] = "pending" /\ promise'[i] = "rejected")
            => shown'[i] = value'[i] /\ shown'[i] # NoValue /\ ~Busy']_vars

\* C15: the signal of a Busy period is fresh and un-fired when the period
\* starts; an invocation that finishes disposes and clears only the signal it
\* created: it disposes no other invocation's signal and does not reset a
\* coordinator that is Busy with a later invocation.
C15_FinishClearsOwnSignal ==
  [][/\ (~Busy /\ Busy')
          => ~cancelled'[cancellationTokenSource'] /\ ~disposed'[cancellationTokenSource']
     /\ \A i \in Invocations :
          (~Finished(i) /\ Finished(i)')
          => /\ \A j \in Invocations \ {i} : disposed'[j] = disposed[j]
             /\ (Busy /\ cancellationTokenSource # i)
                  => cancellationTokenSource' = cancellationTokenSource]_vars

\* the chunk a 'data' event of session i delivers in this step
ChunkNow(i) == SubSeq(wire[i], 1, Len(wire[i]) - Len(wire'[i]))
\* a chunk of complete data events none of which carries text: role-only
\* deltas and deltas with an empty content
NoFragmentChunk(c) ==
  /\ c # <<>> /\ c[Len(c)] = "N"
  /\ \A k \in DOMAIN SplitLines(c, <<>>, <<>>) :
       LET line == SplitLines(c, <<>>, <<>>)[k]
       IN Len(line) = 3 /\ line[1] = "O" /\ line[2] \in {"e", "r"} /\ line[3] = "}"

\* C16: a data event whose payload has no text fragment, or an empty one,
\* causes no sink call, leaves the running text unchanged and does not fail
\* the session: the handler does not throw and the promise stays as it was.
C16_NoFragmentNoEffect ==
  [][\A i \in Invocations :
       (net[i] = "body" /\ Len(wire'[i]) < Len(wire[i]) /\ NoFragmentChunk(ChunkNow(i)))
       => /\ sinkLog'[i] = sinkLog[i]
          /\ fullText'[i] = fullText[i]
          /\ ~OnData(fullText[i], sinkLog[i], ChunkNow(i)).threw
          /\ promise'[i] = promise[i] /\ shown' = shown /\ pc' = pc]_vars

\* C16 witness: a role-only event was delivered to a streaming session that
\* is still pending and has not called the sink.
C16_Witness ==
  \E i \in Invocations :
    /\ Streaming(i) /\ Delivered(i) = <<"O", "r", "}", "N">>
    /\ sinkLog[i] = <<>> /\ fullText[i] = <<>> /\ promise[i] = "pending"

\* suggest returned before calling turboCompletion: the messages are over
\* the budget of 4500 characters, or the API key is empty
RejectedByCaller(i) == cost[i] > 4500 \/ openAiKey[i] = "empty"

\* C17: no HTTP request is ever issued for an invocation whose messages
\* total more than 4500 characters or whose API key is empty: it never has a
\* session, never calls the sink, its handler has ended, and the step that
\* ended it left the coordinator Idle.
C17_NoRequestOverBudgetOrNoKey ==
  /\ [](\A i \in Invocations :
          RejectedByCaller(i)
          => /\ net[i] = "none" /\ promise[i] = "none"
             /\ sinkLog[i] = <<>>
             /\ Finished(i))
  /\ [][\A i \in Invocations :
          (~RejectedByCaller(i) /\ RejectedByCaller(i)') => ~Busy']_vars

\* C17 witness: one invocation ended for its empty key and another for
\* messages of 4501 characters, one over the budget.
C17_Witness ==
  \E i, j \in Invocations :
    /\ openAiKey[i] = "empty" /\ Finished(i)
    /\ cost[j] = 4501 /\ Finished(j) /\ net[j] = "none"

\* C18: each trigger issues at most one HTTP request: an invocation issues
\* its request only when its handler resumes from the git calls, having
\* issued none before, and whatever happens to the request afterwards
\* (failure, cancellation, end) none is sent again for that invocation.
C18_AtMostOneRequest ==
  [][\A i \in Invocations :
       /\ (net[i] # "sent" /\ net'[i] = "sent") => (net[i] = "none" /\ pc[i] = "awaitDiff")
       /\ (net[i] # "none") => net'[i] # "none"
       /\ (Finished(i) /\ net[i] = "none") => net'[i] = "none"]_vars

\* C18 witness: the first invocation's request failed and its error was
\* shown; no request was outstanding until the next trigger issued its own.
C18_Witness ==
  \E i, j \in Invocations :
    /\ i < j
    /\ promise[i] = "rejected" /\ net[i] = "errored" /\ Finished(i)
    /\ net[j] = "sent"

\* C19: accepting a Cancel notification fires only the signal of the
\* invocation that was Busy when the notification was shown: when the
\* coordinator no longer holds that signal, no signal is fired and the
\* coordinator's state is left alone.
C19_CancelOnlyItsOwnInvocation ==
  [][\A o \in Invocations :
       DialogAnswer(TRUE, o)
       => /\ \A j \in Invocations \ {o} : cancelled'[j] = cancelled[j]
          /\ cancellationTokenSource # o
               => cancellationTokenSource' = cancellationTokenSource]_vars

\* C20: the handler of a cancelled invocation runs to its end without using
\* the cleared reference: it does not end in an error.
C20_CancelledHandlerCompletes ==
  \A i \in Invocations : cancelled[i] => pc[i] # "threw"

\* a completion request of run i finishes successfully in this step: res
\* 'end' resolves the promise suggest is awaiting
TrialSucceeds(i) == TrialResEnd(i) /\ trialPc[i] = "awaitCompletion"
\* run i read the counter: the configuration was not unlocked
TrialLocked(i) == numTrialCalls[i] # <<>>

\* C21: in the trial-gated variant the trial counter (the stored value, 10
\* when nothing is stored) stays within 1..10; it changes only in a step in
\* which a locked run's completion request finishes successfully, and then
\* goes down by exactly one; runs that fail, return early or are unlocked
\* leave it alone; and a locked run issues a request only while the counter
\* is above 1.
C21_TrialCounterInRange ==
  /\ [](GetNumTrialCalls \in 1..10 /\ globalState # <<0>>)
  /\ [][/\ \A i \in TrialInvocations :
            (TrialSucceeds(i) /\ TrialLocked(i))
            => GetNumTrialCalls' = GetNumTrialCalls - 1
        /\ globalState' # globalState
            => \E i \in TrialInvocations : TrialSucceeds(i) /\ TrialLocked(i)
        /\ \A i \in TrialInvocations :
            (trialReq[i] = "none" /\ trialReq'[i] = "sent" /\ TrialLocked(i))
            => GetNumTrialCalls > 1]_trialVars

\* C21 witness: nine locked runs succeeded, the counter is 1, and a further
\* locked run was turned away with the purchase warning.
C21_Witness ==
  globalState = <<1>> /\ trialWarnings > 0 /\ ~isProcessing

====
